---- MODULE Spec2Model ----
(***************************************************************************)
(* Flight-Tracker (src/flight_tracker_app.py): the flight profile          *)
(* estimator calcular_perfil_de_voo, the phase classification of the live  *)
(* re-estimation block, and one Streamlit pass of the script (validation,  *)
(* theoretical estimate, live tracking with fallback, auto-refresh, map).  *)
(*                                                                         *)
(* Numbers: the script computes in Python floats.  The model computes in   *)
(* exact rationals [n, d] (d > 0, lowest terms), so equalities are those   *)
(* of real arithmetic; float rounding is not modelled.                     *)
(* Optional values: Python None is the empty sequence, a present value v   *)
(* is <<v>>.                                                               *)
(***************************************************************************)
EXTENDS Integers, Sequences, FiniteSets, TLC

VARIABLES
    \* ---- one pass of the script ----
    pc,                \* position of the script in the current pass
    tipo_aeronave,     \* sidebar: selected aircraft
    vel_custom, altitude_custom, razao_subida_custom, razao_descida_custom,
    origem, destino,   \* sidebar: ICAO codes
    partida_str,       \* sidebar: departure time text
    rastrear,          \* sidebar: live tracking checkbox
    distancia,         \* route distance (km)
    perfil,            \* theoretical profile (optional)
    partida,           \* parsed departure <<hour, minute>> (optional)
    dados_validos, posicao, velocidade_kmh,
    state,             \* primary provider's state vector (optional)
    resposta,          \* what the primary provider answered in this pass
    fallback,          \* secondary provider's result (optional)
    distancia_restante, altitude_atual_ft, fase, tempo_h,
    consultas,         \* providers queried in this pass, in order
    tela,              \* page elements shown in this pass, in order
    refresh,           \* interval given to st_autorefresh in this pass (ms), 0: none
    excecao,           \* uncaught exception that ended the pass ("" if none)
    \* ---- direct calls of the pure functions ----
    chamada,           \* arguments of the call
    retorno            \* its outcome (optional)

passVars == <<pc, tipo_aeronave, vel_custom, altitude_custom, razao_subida_custom,
              razao_descida_custom, origem, destino, partida_str, rastrear,
              distancia, perfil, partida, dados_validos, posicao, velocidade_kmh,
              state, resposta, fallback, distancia_restante, altitude_atual_ft,
              fase, tempo_h, consultas, tela, refresh, excecao>>
callVars == <<chamada, retorno>>
vars == <<passVars, callVars>>

\* ------------------------------------------------------------------------
\* Bounds
\* ------------------------------------------------------------------------
\* Distances handed to the pure functions: 0, 30, ..., 30 * MaxDistancia km.
MaxDistancia == 40
\* Distances the geodesic computation yields within a pass: 0, 75, ..., 75 * MaxTrecho km.
MaxTrecho == 6

Distancias == {30 * k : k \in 0..MaxDistancia}
Trechos == {75 * k : k \in 0..MaxTrecho}

\* ------------------------------------------------------------------------
\* Optional values and Python truthiness
\* ------------------------------------------------------------------------
None == <<>>
Some(v) == <<v>>

\* ------------------------------------------------------------------------
\* Exact rational arithmetic standing for Python's float operators
\* ------------------------------------------------------------------------
Abs(i) == IF i < 0 THEN -i ELSE i

RECURSIVE GCD(_, _)
GCD(a, b) == IF b = 0 THEN a ELSE GCD(b, a % b)

Norm(n, d) ==
    LET g == GCD(Abs(n), d)
    IN  [n |-> n \div g, d |-> d \div g]

R(i) == [n |-> i, d |-> 1]
Zero == R(0)

Add(a, b) ==
    LET g == GCD(a.d, b.d)
    IN  Norm(a.n * (b.d \div g) + b.n * (a.d \div g), (a.d \div g) * b.d)

Neg(a) == [n |-> -a.n, d |-> a.d]
Sub(a, b) == Add(a, Neg(b))

Mul(a, b) ==
    LET g1 == GCD(Abs(a.n), b.d)
        g2 == GCD(Abs(b.n), a.d)
    IN  Norm((a.n \div g1) * (b.n \div g2), (a.d \div g2) * (b.d \div g1))

\* a / b for b # 0
Div(a, b) ==
    Mul(a, IF b.n > 0 THEN [n |-> b.d, d |-> b.n] ELSE [n |-> -b.d, d |-> -b.n])

Lt(a, b) == a.n * b.d < b.n * a.d
Max(a, b) == IF Lt(a, b) THEN b ELSE a

\* Python truthiness of an optional number: None and 0 are falsy.
Truthy(o) == o # None /\ o[1].n # 0

\* ------------------------------------------------------------------------
\* Aircraft performance table
\* ------------------------------------------------------------------------
aeronaves ==
    [ VC1  |-> [altitude_cruzeiro_ft |-> 35000, vel_subida_kmh |-> 500,
                vel_cruzeiro_kmh |-> 840, vel_descida_kmh |-> 600,
                razao_subida_fpm |-> 2000, razao_descida_fpm |-> 1800],
      VC2  |-> [altitude_cruzeiro_ft |-> 37000, vel_subida_kmh |-> 480,
                vel_cruzeiro_kmh |-> 820, vel_descida_kmh |-> 580,
                razao_subida_fpm |-> 2200, razao_descida_fpm |-> 1800],
      KC30 |-> [altitude_cruzeiro_ft |-> 41000, vel_subida_kmh |-> 550,
                vel_cruzeiro_kmh |-> 880, vel_descida_kmh |-> 650,
                razao_subida_fpm |-> 2000, razao_descida_fpm |-> 2000] ]

Tabela == DOMAIN aeronaves
Custom == "Custom"

\* ------------------------------------------------------------------------
\* calcular_perfil_de_voo
\* ------------------------------------------------------------------------
\* The outcome of a call: an exception raised, or a value returned.
Raise(e) == [raised |-> e, value |-> None]
Return(v) == [raised |-> "", value |-> Some(v)]

\* `None in [vel_custom, altitude_cruzeiro_ft, razao_subida_fpm, razao_descida_fpm]`
CustomIncompletoSemDescida(vel, alt, rs, rd) == None \in {vel, alt, rs}
CustomIncompleto(vel, alt, rs, rd) == None \in {vel, alt, rs, rd}

\* tempo_total_h = tempo_subida_h + t_cruzeiro_h + tempo_descida_h
TempoTotalSemDescida(ts, tc, td) == Add(ts, tc)
TempoTotal(ts, tc, td) == Add(Add(ts, tc), td)

\* d_cruzeiro_km = max(0, distancia_total_km - d_subida_km - d_descida_km)
DistCruzeiroSemClamp(dist, ds, dd) == Sub(Sub(dist, ds), dd)
DistCruzeiro(dist, ds, dd) == Max(Zero, Sub(Sub(dist, ds), dd))

\* The profile computed from resolved parameters (all present, positive).
Calculo(distancia_total_km, altitude_cruzeiro_ft, vel_subida_kmh, vel_cruzeiro_kmh, vel_descida_kmh, razao_subida_fpm, razao_descida_fpm) ==
    LET tempo_subida_min  == Div(R(altitude_cruzeiro_ft), R(razao_subida_fpm))
        tempo_descida_min == Div(R(altitude_cruzeiro_ft), R(razao_descida_fpm))
        tempo_subida_h    == Div(tempo_subida_min, R(60))
        tempo_descida_h   == Div(tempo_descida_min, R(60))
        d_subida_km       == Mul(R(vel_subida_kmh), tempo_subida_h)
        d_descida_km      == Mul(R(vel_descida_kmh), tempo_descida_h)
        d_cruzeiro_km     == DistCruzeiro(distancia_total_km, d_subida_km, d_descida_km)
        t_cruzeiro_h      == IF Lt(Zero, d_cruzeiro_km)
                             THEN Div(d_cruzeiro_km, R(vel_cruzeiro_kmh))
                             ELSE Zero
        tempo_total_h     == TempoTotal(tempo_subida_h, t_cruzeiro_h, tempo_descida_h)
    IN  [ subida   |-> [dist_km |-> d_subida_km, tempo_h |-> tempo_subida_h],
          cruzeiro |-> [dist_km |-> d_cruzeiro_km, tempo_h |-> t_cruzeiro_h],
          descida  |-> [dist_km |-> d_descida_km, tempo_h |-> tempo_descida_h],
          tempo_total_h |-> tempo_total_h,
          altitude_cruzeiro_ft |-> altitude_cruzeiro_ft ]

\* distancia_total_km is a rational; tipo_aeronave a string; the other
\* arguments are optional integers (None when the caller leaves them out).
\* The parameters vel_subida_kmh, vel_cruzeiro_kmh and vel_descida_kmh of the
\* Python function are overwritten on every path that returns and no caller
\* passes them, so they are not arguments here.
calcular_perfil_de_voo(distancia_total_km, tipo, vel, altitude_cruzeiro_ft, razao_subida_fpm, razao_descida_fpm) ==
    IF tipo \in Tabela
    THEN LET param == aeronaves[tipo]
         IN  Return(Calculo(distancia_total_km, param.altitude_cruzeiro_ft,
                            param.vel_subida_kmh, param.vel_cruzeiro_kmh,
                            param.vel_descida_kmh, param.razao_subida_fpm,
                            param.razao_descida_fpm))
    ELSE IF tipo = Custom
    THEN IF CustomIncompleto(vel, altitude_cruzeiro_ft, razao_subida_fpm, razao_descida_fpm)
         THEN Raise("ValueError")
         \* lines 83-90: arithmetic on a None operand raises TypeError
         ELSE IF None \in {vel, altitude_cruzeiro_ft, razao_subida_fpm, razao_descida_fpm}
         THEN Raise("TypeError")
         ELSE Return(Calculo(distancia_total_km, altitude_cruzeiro_ft[1],
                             vel[1], vel[1], vel[1],
                             razao_subida_fpm[1], razao_descida_fpm[1]))
    ELSE Raise("ValueError")

\* ------------------------------------------------------------------------
\* Phase determination of the live re-estimation block
\* ------------------------------------------------------------------------
\* distancia_restante < 150
PertoInclusivo(d) == ~Lt(R(150), d)
Perto(d) == Lt(d, R(150))

\* 0.85 * altitude_cruzeiro
LimiarSubida(altitude_cruzeiro) == Mul([n |-> 17, d |-> 20], R(altitude_cruzeiro))

Fase(dist_restante, altitude_atual, altitude_cruzeiro) ==
    IF Perto(dist_restante) THEN "descida"
    ELSE IF Lt(altitude_atual, LimiarSubida(altitude_cruzeiro)) THEN "subida"
    ELSE "cruzeiro"

\* ------------------------------------------------------------------------
\* State of a pass before the script has run (a fresh namespace, an empty page)
\* ------------------------------------------------------------------------
Limpo ==
    /\ distancia = None /\ perfil = None /\ partida = None
    /\ dados_validos = FALSE /\ posicao = None /\ velocidade_kmh = None
    /\ state = None /\ resposta = "" /\ fallback = None
    /\ distancia_restante = None /\ altitude_atual_ft = None
    /\ fase = "" /\ tempo_h = None
    /\ consultas = <<>> /\ tela = <<>> /\ refresh = 0 /\ excecao = ""

Parado ==
    /\ pc = "inativo"
    /\ tipo_aeronave = "" /\ vel_custom = None /\ altitude_custom = None
    /\ razao_subida_custom = None /\ razao_descida_custom = None
    /\ origem = "" /\ destino = "" /\ partida_str = <<>> /\ rastrear = FALSE
    /\ Limpo

\* ------------------------------------------------------------------------
\* Direct calls of calcular_perfil_de_voo
\* ------------------------------------------------------------------------
OptInt(S) == {None} \cup {Some(v) : v \in S}

ChamadasPerfil ==
    [ distancia_total_km : {R(d) : d \in Distancias},
      tipo : Tabela \cup {Custom, "None"},
      vel_custom : OptInt({600, 850}),
      altitude_cruzeiro_ft : OptInt({36000}),
      razao_subida_fpm : OptInt({2000}),
      razao_descida_fpm : OptInt({1800, 2000}) ]

InitPerfil ==
    /\ Parado
    /\ chamada \in ChamadasPerfil
    /\ retorno = None

ChamarPerfil ==
    /\ retorno = None
    /\ retorno' = Some(calcular_perfil_de_voo(chamada.distancia_total_km, chamada.tipo,
                          chamada.vel_custom, chamada.altitude_cruzeiro_ft,
                          chamada.razao_subida_fpm, chamada.razao_descida_fpm))
    /\ UNCHANGED <<chamada, passVars>>

SpecPerfil == InitPerfil /\ [][ChamarPerfil]_vars

\* ------------------------------------------------------------------------
\* Direct evaluations of the phase determination
\* ------------------------------------------------------------------------
\* Current altitudes as percentages of the cruise altitude.
Percentuais == {0, 50, 84, 85, 86, 100, 110}

ChamadasFase ==
    { [ distancia_restante |-> R(d),
        altitude_atual_ft |-> Norm(p * a, 100),
        altitude_cruzeiro |-> a ] :
      d \in Distancias, p \in Percentuais,
      a \in {aeronaves[t].altitude_cruzeiro_ft : t \in Tabela} }

InitFase ==
    /\ Parado
    /\ chamada \in ChamadasFase
    /\ retorno = None

ChamarFase ==
    /\ retorno = None
    /\ retorno' = Some(Fase(chamada.distancia_restante, chamada.altitude_atual_ft,
                            chamada.altitude_cruzeiro))
    /\ UNCHANGED <<chamada, passVars>>

SpecFase == InitFase /\ [][ChamarFase]_vars

\* ------------------------------------------------------------------------
\* Airport dataset (airportsdata keyed by ICAO code; two of its entries)
\* ------------------------------------------------------------------------
airports ==
    [ SBGR |-> [lat |-> Norm(-2343, 100), lon |-> Norm(-4647, 100), tz |-> "America/Sao_Paulo"],
      SBRJ |-> [lat |-> Norm(-2291, 100), lon |-> Norm(-4317, 100), tz |-> "America/Sao_Paulo"] ]

\* airports.get(cod)
obter_info_aeroporto(cod) == IF cod \in DOMAIN airports THEN Some(airports[cod]) ELSE None

\* ------------------------------------------------------------------------
\* Departure time: map(int, partida_str.split(":")) and agora.replace(...)
\* ------------------------------------------------------------------------
\* Text is a sequence of one-character strings.
Digitos == {"0", "1", "2", "3", "4", "5", "6", "7", "8", "9"}
ValorDigito(c) ==
    CASE c = "0" -> 0 [] c = "1" -> 1 [] c = "2" -> 2 [] c = "3" -> 3 [] c = "4" -> 4
      [] c = "5" -> 5 [] c = "6" -> 6 [] c = "7" -> 7 [] c = "8" -> 8 [] c = "9" -> 9

\* str.split(":")
RECURSIVE Split(_)
Split(s) ==
    IF \A i \in 1..Len(s) : s[i] # ":"
    THEN <<s>>
    ELSE LET i == CHOOSE k \in 1..Len(s) : s[k] = ":" /\ \A j \in 1..(k - 1) : s[j] # ":"
         IN  <<SubSeq(s, 1, i - 1)>> \o Split(SubSeq(s, i + 1, Len(s)))

\* int(t) succeeds on a non-empty run of decimal digits (the texts modelled
\* hold no whitespace, sign or underscore, which int() would also take).
IntOk(t) == Len(t) > 0 /\ \A i \in 1..Len(t) : t[i] \in Digitos

RECURSIVE IntDe(_)
IntDe(t) == IF t = <<>> THEN 0 ELSE 10 * IntDe(SubSeq(t, 1, Len(t) - 1)) + ValorDigito(t[Len(t)])

\* Lines 287-288: two fields exactly, each an int, hour 0..23 and minute 0..59
\* (datetime.replace raises ValueError outside these); any exception is caught
\* by the bare except of line 290.
ParsePartidaSemFaixa(s) ==
    LET partes == Split(s)
    IN  IF Len(partes) # 2 \/ ~IntOk(partes[1]) \/ ~IntOk(partes[2])
        THEN Raise("ValueError")
        ELSE Return(<<IntDe(partes[1]), IntDe(partes[2])>>)

ParsePartida(s) ==
    LET partes == Split(s)
    IN  IF Len(partes) # 2 \/ ~IntOk(partes[1]) \/ ~IntOk(partes[2])
        THEN Raise("ValueError")
        ELSE IF IntDe(partes[1]) \notin 0..23 \/ IntDe(partes[2]) \notin 0..59
        THEN Raise("ValueError")
        ELSE Return(<<IntDe(partes[1]), IntDe(partes[2])>>)

\* ------------------------------------------------------------------------
\* Live tracking providers
\* ------------------------------------------------------------------------
OptR(S) == {None} \cup {Some(R(v)) : v \in S}

\* What api.get_states(icao24=...) can do: raise, return nothing (None or an
\* empty list of states), or return a state vector whose fields may be None.
\* latitude/longitude in degrees, velocity in m/s, baro_altitude in metres.
StateVectors ==
    [ latitude : OptR({0, -23}), longitude : OptR({0, -46}),
      velocity : OptR({0, 230}), baro_altitude : OptR({0, 5000, 11000}) ]

RespostasPrimarias ==
    {[tipo |-> "excecao", sv |-> None], [tipo |-> "vazio", sv |-> None]}
        \cup {[tipo |-> "state", sv |-> Some(v)] : v \in StateVectors}

\* What the GET of consultar_adsb_lol can yield: a failure (network error,
\* non-2xx, malformed body), or a JSON body with "total", possibly "ac".
\* lat/lon in degrees, gs in knots.
Aeronaves_ac == [lat : OptR({0, -23}), lon : OptR({0, -46}), gs : OptR({0, 450})]

RespostasSecundarias ==
    {[http |-> "erro", total |-> 0, ac |-> None], [http |-> "ok", total |-> 0, ac |-> None],
     [http |-> "ok", total |-> 1, ac |-> None]}
        \cup {[http |-> "ok", total |-> 1, ac |-> Some(a)] : a \in Aeronaves_ac}

\* consultar_adsb_lol, given what the GET yielded.
consultar_adsb_lol(r) ==
    IF r.http = "erro" THEN None
    ELSE IF r.total > 0 /\ r.ac # None
    THEN Some([ latitude |-> r.ac[1].lat,
                longitude |-> r.ac[1].lon,
                velocity |-> IF Truthy(r.ac[1].gs)
                             THEN Some(Mul(r.ac[1].gs[1], Norm(1852, 1000)))
                             ELSE None ])
    ELSE None

\* Line 322: state.latitude and state.longitude and state.velocity
PrimariaUtil(sv) == Truthy(sv.latitude) /\ Truthy(sv.longitude) /\ Truthy(sv.velocity)

\* Line 335: fallback and fallback["latitude"] and fallback["longitude"] and fallback["velocity"]
FallbackUtil(f) ==
    f # None /\ Truthy(f[1].latitude) /\ Truthy(f[1].longitude) /\ Truthy(f[1].velocity)

\* Line 348: state.baro_altitude * 3.28084 if state and state.baro_altitude else altitude_cruzeiro
AltitudeAtualPadraoZero(st, altitude_cruzeiro) ==
    IF st # None /\ Truthy(st[1].baro_altitude)
    THEN Mul(st[1].baro_altitude[1], Norm(328084, 100000))
    ELSE Zero
AltitudeAtual(st, altitude_cruzeiro) ==
    IF st # None /\ Truthy(st[1].baro_altitude)
    THEN Mul(st[1].baro_altitude[1], Norm(328084, 100000))
    ELSE R(altitude_cruzeiro)

\* Lines 353-361: the speeds of the selected aircraft.
Velocidades(tipo, vel) ==
    IF tipo \in Tabela
    THEN [vel_subida |-> aeronaves[tipo].vel_subida_kmh,
          vel_cruzeiro |-> aeronaves[tipo].vel_cruzeiro_kmh,
          vel_descida |-> aeronaves[tipo].vel_descida_kmh]
    ELSE [vel_subida |-> vel[1], vel_cruzeiro |-> vel[1], vel_descida |-> vel[1]]

\* Lines 372-383: the remaining time of the phase, as the outcome of the
\* computation (the climb branch calls calcular_perfil_de_voo, which may raise).
TempoRestante(f, dist_restante, tipo, vel, altitude_cruzeiro) ==
    IF f = "descida"
    THEN Return(Div(dist_restante, R(Velocidades(tipo, vel).vel_descida)))
    ELSE IF f = "cruzeiro"
    THEN Return(Div(dist_restante, R(Velocidades(tipo, vel).vel_cruzeiro)))
    ELSE LET perfil_real == calcular_perfil_de_voo(dist_restante, tipo,
                                IF tipo = Custom THEN vel ELSE None,
                                Some(altitude_cruzeiro), None, None)
         IN  IF perfil_real.raised # ""
             THEN Raise(perfil_real.raised)
             ELSE Return(perfil_real.value[1].tempo_total_h)

\* ------------------------------------------------------------------------
\* One pass of the script.  Streamlit runs the script top to bottom on every
\* interaction and on every auto-refresh, each time in a fresh namespace.
\* ------------------------------------------------------------------------
\* Sidebar values of a Custom aircraft (number inputs, always filled in).
CustomEntradas ==
    { [vel |-> 850, altitude |-> 35000, razao_subida |-> 2000, razao_descida |-> 1800],
      [vel |-> 600, altitude |-> 36000, razao_subida |-> 2000, razao_descida |-> 2000] }

Origens == {"SBGR", "SBXX"}
Destinos == {"SBRJ", "SBXX"}

PartidaStrs ==
    { <<"1", "0", ":", "0", "0">>, <<"7", ":", "5">>, <<"2", "4", ":", "0", "0">>,
      <<"1", "0", ":", "6", "0">>, <<"1", "0", "0", "0">>, <<"a", "b", ":", "c", "d">>,
      <<>>, <<"1", "0", ":">>, <<"1", ":", "2", ":", "3">> }

Limpar ==
    /\ distancia' = None /\ perfil' = None /\ partida' = None
    /\ dados_validos' = FALSE /\ posicao' = None /\ velocidade_kmh' = None
    /\ state' = None /\ resposta' = "" /\ fallback' = None
    /\ distancia_restante' = None /\ altitude_atual_ft' = None
    /\ fase' = "" /\ tempo_h' = None
    /\ consultas' = <<>> /\ tela' = <<>> /\ refresh' = 0 /\ excecao' = ""

\* The pass is over (the script ran to its end, st.stop() was called, or an
\* exception ended it); the next run starts from a fresh namespace and page.
Rerun ==
    /\ pc = "fim"
    /\ pc' = "inativo"
    /\ tipo_aeronave' = "" /\ vel_custom' = None /\ altitude_custom' = None
    /\ razao_subida_custom' = None /\ razao_descida_custom' = None
    /\ origem' = "" /\ destino' = "" /\ partida_str' = <<>> /\ rastrear' = FALSE
    /\ Limpar
    /\ UNCHANGED callVars

\* Lines 165-239: a run starts (first load, an interaction, or an auto-refresh)
\* and reads the sidebar widgets.
Sidebar ==
    /\ pc = "inativo"
    /\ \E t \in Tabela \cup {Custom}, c \in CustomEntradas, o \in Origens,
          d \in Destinos, ps \in PartidaStrs, r \in BOOLEAN :
          /\ tipo_aeronave' = t
          /\ vel_custom' = IF t = Custom THEN Some(c.vel) ELSE None
          /\ altitude_custom' = IF t = Custom THEN Some(c.altitude) ELSE None
          /\ razao_subida_custom' = IF t = Custom THEN Some(c.razao_subida) ELSE None
          /\ razao_descida_custom' = IF t = Custom THEN Some(c.razao_descida) ELSE None
          /\ origem' = o /\ destino' = d /\ partida_str' = ps /\ rastrear' = r
    /\ Limpar
    /\ pc' = "validar"
    /\ UNCHANGED callVars

\* Lines 248-254: airport validation; st.stop() ends the pass.
Validar ==
    /\ pc = "validar"
    /\ IF obter_info_aeroporto(origem) = None \/ obter_info_aeroporto(destino) = None
       THEN /\ tela' = Append(tela, "erro_icao")
            /\ pc' = "fim"
       ELSE /\ tela' = tela
            /\ pc' = "teorico"
    /\ UNCHANGED <<tipo_aeronave, vel_custom, altitude_custom, razao_subida_custom,
                   razao_descida_custom, origem, destino, partida_str, rastrear,
                   distancia, perfil, partida, dados_validos, posicao, velocidade_kmh,
                   state, resposta, fallback, distancia_restante, altitude_atual_ft,
                   fase, tempo_h, consultas, refresh, excecao, callVars>>

\* Lines 256-281: route distance (geopy's geodesic, whose result is any of
\* Trechos here) and the theoretical profile.
Teorico ==
    /\ pc = "teorico"
    /\ \E km \in Trechos :
          LET r == calcular_perfil_de_voo(R(km), tipo_aeronave, vel_custom, altitude_custom,
                                          razao_subida_custom, razao_descida_custom)
          IN  /\ distancia' = Some(R(km))
              /\ IF r.raised # ""
                 THEN /\ perfil' = None /\ excecao' = r.raised /\ pc' = "fim"
                 ELSE /\ perfil' = r.value /\ excecao' = excecao /\ pc' = "partida"
    /\ UNCHANGED <<tipo_aeronave, vel_custom, altitude_custom, razao_subida_custom,
                   razao_descida_custom, origem, destino, partida_str, rastrear,
                   partida, dados_validos, posicao, velocidade_kmh,
                   state, resposta, fallback, distancia_restante, altitude_atual_ft,
                   fase, tempo_h, consultas, tela, refresh, callVars>>

\* Lines 283-292: departure time; st.stop() ends the pass on any exception.
Partida ==
    /\ pc = "partida"
    /\ LET r == ParsePartida(partida_str)
       IN  IF r.raised # ""
           THEN /\ tela' = Append(tela, "erro_partida")
                /\ partida' = None
                /\ pc' = "fim"
           ELSE /\ tela' = tela
                /\ partida' = r.value
                /\ pc' = "exibir"
    /\ UNCHANGED <<tipo_aeronave, vel_custom, altitude_custom, razao_subida_custom,
                   razao_descida_custom, origem, destino, partida_str, rastrear,
                   distancia, perfil, dados_validos, posicao, velocidade_kmh,
                   state, resposta, fallback, distancia_restante, altitude_atual_ft,
                   fase, tempo_h, consultas, refresh, excecao, callVars>>

\* Lines 297-311: the theoretical estimate block; dados_validos and posicao
\* are reset.
Exibir ==
    /\ pc = "exibir"
    /\ tela' = Append(tela, "estimativa")
    /\ dados_validos' = FALSE
    /\ posicao' = None
    /\ pc' = IF rastrear THEN "primario" ELSE "autorefresh"
    /\ UNCHANGED <<tipo_aeronave, vel_custom, altitude_custom, razao_subida_custom,
                   razao_descida_custom, origem, destino, partida_str, rastrear,
                   distancia, perfil, partida, velocidade_kmh,
                   state, resposta, fallback, distancia_restante, altitude_atual_ft,
                   fase, tempo_h, consultas, refresh, excecao, callVars>>

\* Lines 313-331: the primary provider (OpenSky) is queried.
Primario ==
    /\ pc = "primario"
    /\ \E r \in RespostasPrimarias :
          /\ consultas' = Append(consultas, "opensky")
          /\ resposta' = r.tipo
          /\ state' = r.sv
          /\ IF r.tipo = "state" /\ PrimariaUtil(r.sv[1])
             THEN /\ dados_validos' = TRUE
                  /\ posicao' = Some(<<r.sv[1].latitude[1], r.sv[1].longitude[1]>>)
                  /\ velocidade_kmh' = Some(Mul(r.sv[1].velocity[1], Norm(36, 10)))
             ELSE /\ dados_validos' = FALSE
                  /\ UNCHANGED <<posicao, velocidade_kmh>>
    /\ pc' = "fallback"
    /\ UNCHANGED <<tipo_aeronave, vel_custom, altitude_custom, razao_subida_custom,
                   razao_descida_custom, origem, destino, partida_str, rastrear,
                   distancia, perfil, partida, fallback, distancia_restante,
                   altitude_atual_ft, fase, tempo_h, tela, refresh, excecao, callVars>>

\* Lines 333-341: the secondary provider (ADSB.lol) is queried when the
\* primary gave no valid data.
Fallback ==
    /\ pc = "fallback"
    /\ IF ~dados_validos
       THEN \E r \in RespostasSecundarias :
               LET f == consultar_adsb_lol(r)
               IN  /\ consultas' = Append(consultas, "adsb_lol")
                   /\ fallback' = f
                   /\ IF FallbackUtil(f)
                      THEN /\ posicao' = Some(<<f[1].latitude[1], f[1].longitude[1]>>)
                           /\ velocidade_kmh' = f[1].velocity
                           /\ dados_validos' = TRUE
                           /\ tela' = Append(tela, "info_fallback")
                      ELSE /\ tela' = Append(tela, "aviso_sem_dados")
                           /\ UNCHANGED <<posicao, velocidade_kmh, dados_validos>>
       ELSE UNCHANGED <<consultas, fallback, posicao, velocidade_kmh, dados_validos, tela>>
    /\ pc' = IF dados_validos' THEN "reestimar" ELSE "autorefresh"
    /\ UNCHANGED <<tipo_aeronave, vel_custom, altitude_custom, razao_subida_custom,
                   razao_descida_custom, origem, destino, partida_str, rastrear,
                   distancia, perfil, partida, state, resposta, distancia_restante,
                   altitude_atual_ft, fase, tempo_h, refresh, excecao, callVars>>

\* Lines 343-404: remaining distance (geodesic, any of Trechos here), current
\* altitude, phase, remaining time and the live block.  An exception raised
\* by calcular_perfil_de_voo is not caught: the pass ends there.
Reestimar ==
    /\ pc = "reestimar"
    /\ \E km \in Trechos :
          LET altitude_cruzeiro == perfil[1].altitude_cruzeiro_ft
              alt == AltitudeAtual(state, altitude_cruzeiro)
              f   == Fase(R(km), alt, altitude_cruzeiro)
              t   == TempoRestante(f, R(km), tipo_aeronave, vel_custom, altitude_cruzeiro)
          IN  /\ distancia_restante' = Some(R(km))
              /\ altitude_atual_ft' = Some(alt)
              /\ fase' = f
              /\ IF t.raised # ""
                 THEN /\ tempo_h' = None /\ excecao' = t.raised
                      /\ tela' = tela /\ pc' = "fim"
                 ELSE /\ tempo_h' = t.value /\ excecao' = excecao
                      /\ tela' = Append(tela, "rastreamento") /\ pc' = "autorefresh"
    /\ UNCHANGED <<tipo_aeronave, vel_custom, altitude_custom, razao_subida_custom,
                   razao_descida_custom, origem, destino, partida_str, rastrear,
                   distancia, perfil, partida, dados_validos, posicao, velocidade_kmh,
                   state, resposta, fallback, consultas, refresh, callVars>>

\* Lines 409-413: st_autorefresh.
Intervalo(r, dv) == IF r THEN (IF dv THEN 300000 ELSE 10000) ELSE 0

Autorefresh ==
    /\ pc = "autorefresh"
    /\ refresh' = Intervalo(rastrear, dados_validos)
    /\ pc' = "mapa"
    /\ UNCHANGED <<tipo_aeronave, vel_custom, altitude_custom, razao_subida_custom,
                   razao_descida_custom, origem, destino, partida_str, rastrear,
                   distancia, perfil, partida, dados_validos, posicao, velocidade_kmh,
                   state, resposta, fallback, distancia_restante, altitude_atual_ft,
                   fase, tempo_h, consultas, tela, excecao, callVars>>

\* Lines 418-481: the map.
Mapa ==
    /\ pc = "mapa"
    /\ tela' = Append(tela, "mapa")
    /\ pc' = "fim"
    /\ UNCHANGED <<tipo_aeronave, vel_custom, altitude_custom, razao_subida_custom,
                   razao_descida_custom, origem, destino, partida_str, rastrear,
                   distancia, perfil, partida, dados_validos, posicao, velocidade_kmh,
                   state, resposta, fallback, distancia_restante, altitude_atual_ft,
                   fase, tempo_h, consultas, refresh, excecao, callVars>>

Init ==
    /\ Parado
    /\ chamada = None
    /\ retorno = None

Next ==
    \/ Rerun
    \/ Sidebar
    \/ Validar
    \/ Teorico
    \/ Partida
    \/ Exibir
    \/ Primario
    \/ Fallback
    \/ Reestimar
    \/ Autorefresh
    \/ Mapa

Spec == Init /\ [][Next]_vars

\* ------------------------------------------------------------------------
\* Properties of calcular_perfil_de_voo (under SpecPerfil)
\* ------------------------------------------------------------------------
Chamado == retorno # None
Retornou == Chamado /\ retorno[1].raised = ""
Resultado == retorno[1].value[1]

\* The parameters a call resolves to, read off the table or the arguments.
ParamDaChamada ==
    IF chamada.tipo \in Tabela
    THEN aeronaves[chamada.tipo]
    ELSE [altitude_cruzeiro_ft |-> chamada.altitude_cruzeiro_ft[1],
          vel_subida_kmh |-> chamada.vel_custom[1],
          vel_cruzeiro_kmh |-> chamada.vel_custom[1],
          vel_descida_kmh |-> chamada.vel_custom[1],
          razao_subida_fpm |-> chamada.razao_subida_fpm[1],
          razao_descida_fpm |-> chamada.razao_descida_fpm[1]]

CamposCustom ==
    {chamada.vel_custom, chamada.altitude_cruzeiro_ft,
     chamada.razao_subida_fpm, chamada.razao_descida_fpm}

\* C3: a Custom call with any one of speed, cruise altitude, climb rate or
\* descent rate absent raises ValueError and returns no profile; with all
\* four present it returns a profile.
C3_CustomMissingFieldFails ==
    (Chamado /\ chamada.tipo = Custom) =>
        /\ (None \in CamposCustom) =>
              (retorno[1].raised = "ValueError" /\ retorno[1].value = None)
        /\ (None \notin CamposCustom) =>
              (retorno[1].raised = "" /\ retorno[1].value # None)

\* A Custom call lacking only the descent rate has raised.
C3_Witness ==
    /\ Chamado /\ chamada.tipo = Custom
    /\ chamada.razao_descida_fpm = None
    /\ None \notin {chamada.vel_custom, chamada.altitude_cruzeiro_ft, chamada.razao_subida_fpm}
    /\ retorno[1].raised = "ValueError"

\* Expected climb and descent legs, from the resolved parameters.
SubidaEsperada_h == Div(Div(R(ParamDaChamada.altitude_cruzeiro_ft), R(ParamDaChamada.razao_subida_fpm)), R(60))
DescidaEsperada_h == Div(Div(R(ParamDaChamada.altitude_cruzeiro_ft), R(ParamDaChamada.razao_descida_fpm)), R(60))
SubidaEsperada_km == Mul(R(ParamDaChamada.vel_subida_kmh), SubidaEsperada_h)
DescidaEsperada_km == Mul(R(ParamDaChamada.vel_descida_kmh), DescidaEsperada_h)

\* C4: when D exceeds climb + descent distance the three phase distances
\* sum to D; otherwise cruise distance and cruise time are 0 (never
\* negative); in both cases climb and descent distances are the unclamped
\* ones (so together they may exceed D).
C4_DistanceClamp ==
    Retornou =>
        LET D == chamada.distancia_total_km
            p == Resultado
            sd == Add(p.subida.dist_km, p.descida.dist_km)
        IN  /\ p.subida.dist_km = SubidaEsperada_km
            /\ p.descida.dist_km = DescidaEsperada_km
            /\ ~Lt(p.cruzeiro.dist_km, Zero) /\ ~Lt(p.cruzeiro.tempo_h, Zero)
            /\ Lt(sd, D) => Add(sd, p.cruzeiro.dist_km) = D
            /\ ~Lt(sd, D) => (p.cruzeiro.dist_km = Zero /\ p.cruzeiro.tempo_h = Zero)

\* A call whose climb + descent distance exceeds D has returned, clamped.
C4_Witness ==
    /\ Retornou
    /\ Lt(chamada.distancia_total_km, Add(Resultado.subida.dist_km, Resultado.descida.dist_km))
    /\ Resultado.cruzeiro.dist_km = Zero

\* C5: tempo_total_h is the sum of the three returned phase times, with
\* climb time = cruise altitude / climb rate / 60 and descent time =
\* cruise altitude / descent rate / 60.
C5_TotalIsSumOfPhases ==
    Retornou =>
        LET p == Resultado
        IN  /\ p.tempo_total_h = Add(Add(p.subida.tempo_h, p.cruzeiro.tempo_h), p.descida.tempo_h)
            /\ p.subida.tempo_h = SubidaEsperada_h
            /\ p.descida.tempo_h = DescidaEsperada_h

\* A call with a positive cruise leg has returned.
C5_Witness ==
    /\ Retornou
    /\ Lt(Zero, Resultado.cruzeiro.tempo_h)
    /\ Lt(Resultado.cruzeiro.tempo_h, Resultado.tempo_total_h)

\* ------------------------------------------------------------------------
\* Properties of the phase determination (under SpecFase)
\* ------------------------------------------------------------------------
\* C6: the phase is "descida" whenever remaining distance < 150 km; otherwise
\* "subida" when altitude < 85% of cruise altitude; otherwise "cruzeiro".
\* Exactly one phase is assigned; 150 km is not descent, 85% is not climb.
C6_PhaseClassification ==
    Chamado =>
        LET f == retorno[1]
            d == chamada.distancia_restante
            a == chamada.altitude_atual_ft
            perto == d.n < 150 * d.d
            baixo == 100 * a.n < 85 * chamada.altitude_cruzeiro * a.d
        IN  /\ f \in {"descida", "subida", "cruzeiro"}
            /\ (f = "descida") <=> perto
            /\ (f = "subida") <=> (~perto /\ baixo)
            /\ (f = "cruzeiro") <=> (~perto /\ ~baixo)

\* Exactly 150 km remaining at exactly 85% of the cruise altitude: cruise.
C6_Witness ==
    /\ Chamado
    /\ chamada.distancia_restante = R(150)
    /\ 100 * chamada.altitude_atual_ft.n = 85 * chamada.altitude_cruzeiro * chamada.altitude_atual_ft.d
    /\ retorno[1] = "cruzeiro"

\* ------------------------------------------------------------------------
\* Properties of a pass (under Spec)
\* ------------------------------------------------------------------------
Mostrado(e) == \E i \in 1..Len(tela) : tela[i] = e
Consultado(p) == \E i \in 1..Len(consultas) : consultas[i] = p
VezesConsultado(p) == Cardinality({i \in 1..Len(consultas) : consultas[i] = p})

\* A departure text is HH:MM when it is an hour field and a minute field
\* around a single colon, both decimal numerals, hour 0..23, minute 0..59.
Numeral(t, faixa) == Len(t) > 0 /\ (\A i \in 1..Len(t) : t[i] \in Digitos) /\ IntDe(t) \in faixa
HoraValida(s) ==
    \E i \in 1..Len(s) :
        /\ s[i] = ":"
        /\ \A j \in 1..Len(s) : s[j] = ":" => j = i
        /\ Numeral(SubSeq(s, 1, i - 1), 0..23)
        /\ Numeral(SubSeq(s, i + 1, Len(s)), 0..59)

EntradaInvalida ==
    \/ origem \notin DOMAIN airports
    \/ destino \notin DOMAIN airports
    \/ ~HoraValida(partida_str)

SemBaro == state = None \/ state[1].baro_altitude = None

\* C10: with a valid live position and no barometric altitude, the current
\* altitude is the cruise altitude and the phase is never "subida": it is
\* "descida" below 150 km remaining and "cruzeiro" otherwise.
C10_NoBaroNeverClimb ==
    (fase # "" /\ SemBaro) =>
        LET d == distancia_restante[1]
        IN  /\ dados_validos
            /\ altitude_atual_ft = Some(R(perfil[1].altitude_cruzeiro_ft))
            /\ fase # "subida"
            /\ (fase = "descida") <=> (d.n < 150 * d.d)
            /\ (fase = "cruzeiro") <=> ~(d.n < 150 * d.d)

\* The primary raised, the fallback gave the position, the state it gave has
\* no place to take an altitude from, and the phase is cruise.
C10_Witness ==
    /\ resposta = "excecao" /\ state = None
    /\ dados_validos /\ fase = "cruzeiro"
    /\ distancia_restante = Some(R(300))

\* The remaining time the selected aircraft's profile gives for the phase.
TempoEsperado ==
    LET d == distancia_restante[1]
        v == Velocidades(tipo_aeronave, vel_custom)
    IN  IF fase = "descida" THEN Div(d, R(v.vel_descida))
        ELSE IF fase = "cruzeiro" THEN Div(d, R(v.vel_cruzeiro))
        ELSE calcular_perfil_de_voo(d, tipo_aeronave, vel_custom, altitude_custom,
                                    razao_subida_custom, razao_descida_custom).value[1].tempo_total_h

\* C1: every pass with valid position data yields a remaining time for the
\* selected aircraft (table or Custom): distance / descent speed in descent,
\* distance / cruise speed in cruise, and in climb the total time of
\* calcular_perfil_de_voo on the remaining distance with that aircraft's
\* profile.
C1_ReestimateYieldsTime ==
    (dados_validos /\ fase # "") =>
        /\ excecao = ""
        /\ tempo_h # None
        /\ tempo_h[1] = TempoEsperado

\* The fields the primary's state must carry.
CamposPresentes(sv) == sv.latitude # None /\ sv.longitude # None /\ sv.velocity # None

\* The primary failed: exception, empty result, or a missing field.
PrimariaFalhou == resposta \in {"excecao", "vazio"} \/ ~CamposPresentes(state[1])

\* C2: with tracking enabled the primary is queried first; the secondary is
\* queried exactly once if and only if the primary failed, never when the
\* primary gave usable data; no provider is queried twice; if both fail the
\* pass ends with dados_validos false and no position.
C2_FallbackIffPrimaryFailed ==
    (rastrear /\ pc \in {"reestimar", "autorefresh", "mapa", "fim"} /\ resposta # "") =>
        /\ consultas[1] = "opensky"
        /\ VezesConsultado("opensky") = 1
        /\ VezesConsultado("adsb_lol") <= 1
        /\ Consultado("adsb_lol") <=> PrimariaFalhou
        /\ (PrimariaFalhou /\ ~FallbackUtil(fallback)) => (~dados_validos /\ posicao = None)

\* C8: at the end of a pass the re-poll interval is 10 s exactly when
\* tracking is enabled and both providers failed in this pass (with the
\* notice), 5 min exactly when tracking is enabled and valid data was found
\* in this pass, and none when tracking is disabled.
C8_RefreshDependsOnOutcome ==
    pc = "fim" =>
        /\ (refresh = 10000) <=>
              (rastrear /\ consultas = <<"opensky", "adsb_lol">> /\ ~dados_validos)
        /\ (refresh = 10000) => Mostrado("aviso_sem_dados")
        /\ (refresh = 300000) <=> (rastrear /\ dados_validos)
        /\ ~rastrear => refresh = 0

\* C9: a primary state with latitude, longitude and velocity all present is
\* accepted whatever their values: dados_validos, position and speed taken
\* from it, secondary not queried.
C9_PresentFieldsAccepted ==
    (resposta = "state" /\ pc # "fallback" /\ CamposPresentes(state[1])) =>
        /\ dados_validos
        /\ posicao = Some(<<state[1].latitude[1], state[1].longitude[1]>>)
        /\ velocidade_kmh = Some(Mul(state[1].velocity[1], Norm(36, 10)))
        /\ consultas = <<"opensky">>

====
